---- MODULE Spec2Model ----
(***************************************************************************)
(* Model of file_transfer.py: the framing helpers, the get and put client  *)
(* flows, the server's request handler and its accept loop, over a byte    *)
(* stream per direction whose recv calls may return any non-empty prefix   *)
(* of what is in flight.                                                   *)
(*                                                                         *)
(* A Python str is a sequence of code points, a bytes object a sequence of *)
(* integers 0..255.  One client command runs at a time; connect and accept *)
(* are one step (a client waiting in the listen backlog is not modelled).  *)
(***************************************************************************)
EXTENDS Integers, Sequences, FiniteSets, TLC

\* Number of connections the server accepts in a run.
MaxConns == 2
\* Longest filename list given to a command.
MaxFiles == 2

(***************************************************************************)
(* Data: file names, file contents, directories.                           *)
(***************************************************************************)
NameA == <<97>>        \* "a"
NameE == <<233>>       \* "e" with acute accent: two bytes in UTF-8
NameEmpty == <<>>      \* ""

\* Versions a server on the port may announce: this repository's, or another.
Versions == {1, 2}

\* A directory is a function from the names of its regular files to bytes.
\* The server's directory when it starts: it holds "a" only.
ServerDir == [n \in {NameA} |-> <<5, 6>>]
\* The directory a `put` is run in: with or without the second file.
ClientDirs == { [n \in {NameA} |-> <<7, 8>>],
                [n \in {NameA, NameE} |-> IF n = NameA THEN <<7, 8>> ELSE <<>>] }
\* The directory a `get` is run in: it holds an "a" of its own.
GetDir == [n \in {NameA} |-> <<7, 8>>]

ListsOver(S) == UNION { [1..k -> S] : k \in 0..MaxFiles }
GetLists == ListsOver({NameA, NameE, NameEmpty})
PutLists == ListsOver({NameA, NameE}) \ {<<>>}

(***************************************************************************)
(* struct.pack / struct.unpack and str.encode / bytes.decode.              *)
(***************************************************************************)
\* struct.pack('>i', n): the same four bytes, most significant first.
pack_i_be(n) == << (n \div 16777216) % 256, (n \div 65536) % 256,
                   (n \div 256) % 256, n % 256 >>

\* struct.pack('<i', n): two's complement, little-endian, four bytes.
pack_i(n) == << n % 256, (n \div 256) % 256, (n \div 65536) % 256,
                (n \div 16777216) % 256 >>

\* struct.unpack('<i', b)[0]
unpack_i(b) == b[1] + 256 * b[2] + 65536 * b[3]
               + 16777216 * (IF b[4] >= 128 THEN b[4] - 256 ELSE b[4])

\* struct.pack('<?', v) and struct.unpack('<?', b)[0]
pack_bool(v) == IF v THEN <<1>> ELSE <<0>>
unpack_bool(b) == b[1] # 0

\* str.encode(): UTF-8 of code points below 2048.
RECURSIVE encode(_)
encode(s) ==
    IF s = <<>> THEN <<>>
    ELSE LET c == Head(s) IN
         (IF c < 128 THEN <<c>> ELSE <<192 + (c \div 64), 128 + (c % 64)>>)
             \o encode(Tail(s))

\* What bytes.decode() yields in place of a str when it raises UnicodeDecodeError.
DecodeError == <<-1>>

\* bytes.decode(): UTF-8 of code points below 2048, DecodeError otherwise.
RECURSIVE decode(_)
decode(b) ==
    IF b = <<>> THEN <<>>
    ELSE LET x == Head(b) IN
         IF x < 128
         THEN LET r == decode(Tail(b)) IN
              IF r = DecodeError THEN DecodeError ELSE <<x>> \o r
         ELSE IF x >= 194 /\ x <= 223 /\ Len(b) >= 2 /\ b[2] >= 128 /\ b[2] <= 191
         THEN LET r == decode(Tail(Tail(b))) IN
              IF r = DecodeError THEN DecodeError
              ELSE <<(x - 192) * 64 + (b[2] - 128)>> \o r
         ELSE DecodeError

(***************************************************************************)
(* Utility functions.                                                      *)
(***************************************************************************)
isfile(filename, dir) == filename \in DOMAIN dir

read_file(filename, dir) == dir[filename]

\* open(filename, 'wb') raises for the empty name; otherwise the file is
\* created or truncated and holds exactly data.
save_file_raises(filename) == filename = NameEmpty

\* save_file opening the file in append mode.
save_file_append(filename, data, dir) ==
    [n \in DOMAIN dir \cup {filename} |->
        IF n = filename
        THEN (IF n \in DOMAIN dir THEN dir[n] ELSE <<>>) \o data
        ELSE dir[n]]

save_file(filename, data, dir) ==
    [n \in DOMAIN dir \cup {filename} |-> IF n = filename THEN data ELSE dir[n]]

\* The bytes send_str writes: the length of the encoded string, then the encoding.
send_str(string) ==
    LET e == encode(string) IN pack_i(Len(e)) \o e

RECURSIVE send_strs(_)
send_strs(strings) ==
    IF strings = <<>> THEN <<>>
    ELSE send_str(Head(strings)) \o send_strs(Tail(strings))

\* The bytes send_str_list writes: the length of the list, then each string.
send_str_list(strings) == pack_i(Len(strings)) \o send_strs(strings)

\* send_bool packing the opposite value.
send_bool_negated(boolean) == pack_bool(~boolean)

send_bool(boolean) == pack_bool(boolean)

\* recv_all's loop test written as `while len(data) < num_bytes`.
recv_all_atleast(data, num_bytes) == Len(data) >= num_bytes

\* recv_all's loop test: the loop ends when data holds num_bytes bytes.
recv_all_done(data, num_bytes) == Len(data) = num_bytes

Min(a, b) == IF a < b THEN a ELSE b

\* sock.recv(bufsize) on a stream holding `inflight`: any non-empty prefix of at
\* most bufsize bytes; b'' once the peer has closed and the stream is drained; a
\* ConnectionResetError once the peer has reset the connection (before or after
\* the bytes still in flight are delivered).  With nothing in flight and the
\* peer still open the call blocks: the set is empty.
recv(inflight, peerClosed, reset, bufsize) ==
    { [kind |-> "data", n |-> k] : k \in 1..Min(bufsize, Len(inflight)) }
    \cup (IF inflight = <<>> /\ peerClosed /\ ~reset
          THEN {[kind |-> "eof", n |-> 0]} ELSE {})
    \cup (IF reset THEN {[kind |-> "reset", n |-> 0]} ELSE {})

Take(s, k) == SubSeq(s, 1, k)
Drop(s, k) == SubSeq(s, k + 1, Len(s))


\* Put requests that make the handler raise: one file whose name is the
\* byte 0xFF, which is not UTF-8; one file whose name has the length -1.
BadRequests == { pack_bool(FALSE) \o pack_i(1) \o pack_i(1) \o <<255>>,
                 pack_bool(FALSE) \o pack_i(1) \o pack_i(-1) }

(***************************************************************************)
(* State.                                                                  *)
(***************************************************************************)
VARIABLES
    server_version, \* the version the server on the port announces
    srv,            \* the server's position and locals
    srvFiles,       \* the server's directory
    cli,            \* the running client command's position and locals
    cliFiles,       \* the client's directory
    c2s,            \* bytes in flight from client to server
    s2c,            \* bytes in flight from server to client
    cliClosed,      \* the client's socket is closed (or was never opened)
    srvClosed,      \* the server's accepted socket is closed
    cliRst,         \* the client's socket has been reset by the server's close
    srvRst,         \* the server's socket has been reset by the client's close
    nconn,          \* connections accepted so far
    openConns,      \* accepted connections whose server-side socket is open
    log             \* what the current command and its session did (history)

vars == << server_version, srv, srvFiles, cli, cliFiles, c2s, s2c, cliClosed,
           srvClosed, cliRst, srvRst, nconn, openConns, log >>

SrvIdle == [pc |-> "accept", need |-> 0, buf |-> <<>>, lst |-> <<>>,
            left |-> 0, i |-> 0, name |-> <<>>]

CliNone == [pc |-> "none", need |-> 0, buf |-> <<>>, cmd |-> "none",
            filenames |-> <<>>, i |-> 0]

LogNone == [saved |-> <<>>, notfound |-> <<>>, sent |-> 0, read |-> {},
            connected |-> FALSE, srvsaved |-> <<>>, gotlist |-> FALSE,
            srvlist |-> <<>>, srvend |-> "", clieof |-> FALSE, srveof |-> FALSE,
            killed |-> FALSE, files0 |-> << >>, version |-> 0,
            srvwrote |-> <<>>, dir0 |-> << >>]

SrvReading == {"dir", "listlen", "strlen", "str", "count", "p_namelen", "p_name",
               "p_size", "p_data"}
CliReading == {"ver", "flag", "size", "data"}
CliRunning == CliReading \cup {"put"}
CliOver == {"none", "returned", "wrongver", "raised", "killed", "notrying"}

Init ==
    /\ server_version \in Versions
    /\ srv = SrvIdle
    /\ srvFiles = ServerDir
    /\ cli = CliNone
    /\ cliFiles = GetDir
    /\ c2s = <<>>
    /\ s2c = <<>>
    /\ cliClosed = TRUE
    /\ srvClosed = TRUE
    /\ cliRst = FALSE
    /\ srvRst = FALSE
    /\ nconn = 0
    /\ openConns = {}
    /\ log = LogNone

(***************************************************************************)
(* server_handle_request between two blocking calls.  A world w carries    *)
(* the server's locals, its directory, the session history and how the     *)
(* handler ended: "" (still running), "returned" or "raised".              *)
(***************************************************************************)
SrvWorld == [pc |-> srv.pc, need |-> srv.need, buf |-> srv.buf, lst |-> srv.lst,
             left |-> srv.left, i |-> srv.i, name |-> srv.name,
             files |-> srvFiles, saved |-> log.srvsaved, gotlist |-> log.gotlist,
             srvlist |-> log.srvlist, out |-> <<>>, end |-> ""]

RECURSIVE server_handle_request(_, _, _)

\* recv_all(sock, n) called by the server, to continue at pc with the data:
\* recv(n) raises ValueError for a negative n, returns b'' at once for n = 0,
\* and otherwise blocks until bytes arrive.
srv_recv_all(w, pc, n) ==
    IF n < 0 THEN [w EXCEPT !.end = "raised"]
    ELSE IF n = 0 /\ recv_all_done(<<>>, n)
    THEN server_handle_request([w EXCEPT !.need = 0, !.buf = <<>>], pc, <<>>)
    ELSE [w EXCEPT !.pc = pc, !.need = n, !.buf = <<>>]

\* recv_str_list has returned lst: the loop over the filenames starts.
srv_got_list(w, lst) ==
    [w EXCEPT !.gotlist = TRUE, !.srvlist = lst, !.lst = lst, !.left = 0,
              !.pc = "serve", !.i = 1, !.need = 0, !.buf = <<>>]

\* The handler continues at pc with the data recv_all returned.
server_handle_request(w, pc, data) ==
    CASE pc = "dir" ->
           IF unpack_bool(data) THEN srv_recv_all(w, "listlen", 4)
           ELSE srv_recv_all(w, "count", 4)
      [] pc = "listlen" ->
           LET length == unpack_i(data) IN
           IF length <= 0 THEN srv_got_list(w, <<>>)
           ELSE srv_recv_all([w EXCEPT !.left = length, !.lst = <<>>], "strlen", 4)
      [] pc = "strlen" -> srv_recv_all(w, "str", unpack_i(data))
      [] pc = "str" ->
           LET s == decode(data) IN
           IF s = DecodeError THEN [w EXCEPT !.end = "raised"]
           ELSE IF w.left = 1 THEN srv_got_list(w, Append(w.lst, s))
           ELSE srv_recv_all([w EXCEPT !.lst = Append(@, s), !.left = @ - 1],
                             "strlen", 4)
      [] pc = "count" ->
           LET amount_of_files == unpack_i(data) IN
           IF amount_of_files <= 0 THEN [w EXCEPT !.end = "returned"]
           ELSE srv_recv_all([w EXCEPT !.left = amount_of_files], "p_namelen", 4)
      [] pc = "p_namelen" -> srv_recv_all(w, "p_name", unpack_i(data))
      [] pc = "p_name" ->
           LET s == decode(data) IN
           IF s = DecodeError THEN [w EXCEPT !.end = "raised"]
           ELSE srv_recv_all([w EXCEPT !.name = s], "p_size", 4)
      [] pc = "p_size" -> srv_recv_all(w, "p_data", unpack_i(data))
      [] pc = "p_data" ->
           IF save_file_raises(w.name) THEN [w EXCEPT !.end = "raised"]
           ELSE LET w2 == [w EXCEPT
                             !.files = save_file(w.name, data, @),
                             !.saved = Append(@, [name |-> w.name, data |-> data,
                                                  announced |-> w.need])] IN
                IF w.left = 1 THEN [w2 EXCEPT !.end = "returned"]
                ELSE srv_recv_all([w2 EXCEPT !.left = @ - 1], "p_namelen", 4)

\* One iteration of the handler's loop over the requested filenames, or the
\* handler's return when the loop is over.
\* sendfails: the peer is gone and sendall raises.
server_send_file(w, sendfails) ==
    IF w.i > Len(w.lst) THEN [w EXCEPT !.end = "returned"]
    ELSE LET filename == w.lst[w.i]
             file_data == read_file(filename, w.files) IN
         IF isfile(filename, w.files)
         THEN IF sendfails THEN [w EXCEPT !.end = "raised"]
              ELSE [w EXCEPT !.i = @ + 1,
                             !.out = send_bool(TRUE) \o pack_i(Len(file_data))
                                     \o file_data]
         ELSE [w EXCEPT !.i = @ + 1]

\* One iteration of the loop of a server that answers every filename as
\* get_files reads the answers: the flag false alone for a filename that is
\* not a file of its directory, and otherwise what this server sends.
peer_send_file(w, sendfails) ==
    IF w.i <= Len(w.lst) /\ ~isfile(w.lst[w.i], w.files)
    THEN IF sendfails THEN [w EXCEPT !.end = "raised"]
         ELSE [w EXCEPT !.i = @ + 1, !.out = send_bool(FALSE)]
    ELSE server_send_file(w, sendfails)

\* run_server without its `except`: an exception of the handler ends the
\* process.
run_server_stops(end) == IF end = "raised" THEN "dead" ELSE "accept"

\* run_server's `while True:` around `try` / `except Exception`: whether the
\* handler returned or raised, the loop goes on to server.accept().
run_server_loop(end) == "accept"

\* run_server closing the accepted socket only after a normal return.
closes_on_return(end) == end = "returned"

\* run_server's `with s:` and `except`: the accepted socket is closed when the
\* handler returns and when it raises; the loop goes back to accept.
run_server_closes(end) == end \in {"returned", "raised"}


(***************************************************************************)
(* get_files and put_files between two blocking calls.  A world w carries  *)
(* the client's locals, its directory, the history and how the function    *)
(* ended: "" (still running), "returned", "wrongver" (returned on the      *)
(* version test) or "raised".                                              *)
(***************************************************************************)
CliWorld == [pc |-> cli.pc, need |-> cli.need, buf |-> cli.buf, cmd |-> cli.cmd,
             filenames |-> cli.filenames, i |-> cli.i, files |-> cliFiles,
             saved |-> log.saved, notfound |-> log.notfound, read |-> log.read,
             version |-> log.version, out |-> <<>>, end |-> ""]

\* A client that accepts any version.
version_any(version_number) == TRUE

\* The test both clients make on the version they received.
version_ok(version_number) == version_number = 1

RECURSIVE get_files(_, _, _)

\* recv_all(client, n) called by the client, to continue at pc with the data.
cli_recv_all(w, pc, n) ==
    IF n < 0 THEN [w EXCEPT !.end = "raised"]
    ELSE IF n = 0 /\ recv_all_done(<<>>, n)
    THEN get_files([w EXCEPT !.need = 0, !.buf = <<>>], pc, <<>>)
    ELSE [w EXCEPT !.pc = pc, !.need = n, !.buf = <<>>]

\* The end of one iteration of get_files' loop over filenames.
get_next(w) ==
    IF w.i = Len(w.filenames) THEN [w EXCEPT !.end = "returned"]
    ELSE cli_recv_all([w EXCEPT !.i = @ + 1], "flag", 1)

\* A client that goes on to read a length after the flag false.
get_reads_length(w) ==
    cli_recv_all([w EXCEPT !.notfound = Append(@, w.filenames[w.i])], "size", 4)

\* get_files' else branch: the flag was false, the file is reported missing
\* and the loop goes to the next filename.
get_not_found(w) ==
    get_next([w EXCEPT !.notfound = Append(@, w.filenames[w.i])])

\* get_files continues at pc with the data recv_all returned.
\* sendfails: the peer is gone and sendall raises.
get_files(w, pc, data) ==
    CASE pc = "ver" ->
           IF ~version_ok(unpack_i(data))
           THEN [w EXCEPT !.end = "wrongver", !.version = unpack_i(data)]
           ELSE LET w2 == [w EXCEPT !.version = unpack_i(data),
                                    !.out = send_bool(TRUE)
                                            \o send_str_list(w.filenames)] IN
                IF w.filenames = <<>> THEN [w2 EXCEPT !.end = "returned"]
                ELSE cli_recv_all([w2 EXCEPT !.i = 1], "flag", 1)
      [] pc = "flag" ->
           IF unpack_bool(data) THEN cli_recv_all(w, "size", 4)
           ELSE get_not_found(w)
      [] pc = "size" -> cli_recv_all(w, "data", unpack_i(data))
      [] pc = "data" ->
           LET filename == w.filenames[w.i] IN
           IF save_file_raises(filename) THEN [w EXCEPT !.end = "raised"]
           ELSE get_next([w EXCEPT
                            !.files = save_file(filename, data, @),
                            !.saved = Append(@, [name |-> filename, data |-> data,
                                                 announced |-> w.need])])

\* put_files continues with the version it received.
put_files(w, data) ==
    IF ~version_ok(unpack_i(data))
    THEN [w EXCEPT !.end = "wrongver", !.version = unpack_i(data)]
    ELSE [w EXCEPT !.version = unpack_i(data),
                   !.out = send_bool(FALSE) \o pack_i(Len(w.filenames)),
                   !.pc = "put", !.i = 1, !.need = 0, !.buf = <<>>]

\* One iteration of put_files' loop over filenames, or put_files' return when
\* the loop is over.
put_file(w) ==
    IF w.i > Len(w.filenames) THEN [w EXCEPT !.end = "returned"]
    ELSE LET filename == w.filenames[w.i] IN
         IF ~isfile(filename, w.files) THEN [w EXCEPT !.end = "raised"]
         ELSE LET file_data == read_file(filename, w.files) IN
              [w EXCEPT !.i = @ + 1,
                        !.read = @ \cup {filename},
                        !.out = send_str(filename) \o pack_i(Len(file_data))
                                \o file_data]

\* main's test written with any() in place of all().
any_exist(files, dir) == \E k \in 1..Len(files) : isfile(files[k], dir)

\* main's test before put_files: every named file is a regular file.
all_exist(files, dir) == \A k \in 1..Len(files) : isfile(files[k], dir)

(***************************************************************************)
(* Committing a world to the state.                                        *)
(***************************************************************************)
\* The server's step ends in world w, having consumed c2s down to rest.
SrvCommit(w, rest, eof) ==
    LET closes == run_server_closes(w.end) IN
    /\ srv' = IF w.end # "" THEN [SrvIdle EXCEPT !.pc = run_server_loop(w.end)]
              ELSE [pc |-> w.pc, need |-> w.need, buf |-> w.buf, lst |-> w.lst,
                    left |-> w.left, i |-> w.i, name |-> w.name]
    /\ srvFiles' = w.files
    /\ c2s' = rest
    /\ s2c' = IF cliClosed THEN s2c ELSE s2c \o w.out
    /\ srvClosed' = (srvClosed \/ closes)
    /\ openConns' = IF closes THEN openConns \ {nconn} ELSE openConns
    /\ cliRst' = (cliRst \/ (closes /\ rest # <<>> /\ ~cliClosed))
    /\ log' = [log EXCEPT !.srvsaved = w.saved, !.gotlist = w.gotlist,
                          !.srvlist = w.srvlist, !.srvend = w.end,
                          !.srvwrote = @ \o w.out,
                          !.srveof = @ \/ eof]
    /\ UNCHANGED << server_version, cli, cliFiles, cliClosed, srvRst, nconn >>

\* The client's step ends in world w, having consumed s2c down to rest.
CliCommit(w, rest, eof) ==
    LET closes == w.end # "" IN
    /\ cli' = [pc |-> IF closes THEN w.end ELSE w.pc, need |-> w.need,
               buf |-> w.buf, cmd |-> w.cmd, filenames |-> w.filenames, i |-> w.i]
    /\ cliFiles' = w.files
    /\ s2c' = rest
    /\ c2s' = IF srvClosed THEN c2s ELSE c2s \o w.out
    /\ cliClosed' = (cliClosed \/ closes)
    /\ srvRst' = (srvRst \/ (closes /\ rest # <<>> /\ ~srvClosed))
    /\ log' = [log EXCEPT !.saved = w.saved, !.notfound = w.notfound,
                          !.read = w.read, !.sent = @ + Len(w.out),
                          !.version = w.version,
                          !.clieof = @ \/ eof]
    /\ UNCHANGED << server_version, srv, srvFiles, srvClosed, cliRst, nconn,
                    openConns >>

(***************************************************************************)
(* Actions.                                                                *)
(***************************************************************************)
\* Commands are run one after the other: the next one starts when the
\* previous one is over and the server has closed that command's connection.
SessionOver == cli.pc \in CliOver /\ srvClosed

\* main runs `get` or `put` and the server accepts the connection: the server
\* sends its version and waits for the direction flag, the client waits for
\* the version.
Connect(cmd, files, dir) ==
    /\ SessionOver
    /\ srv.pc = "accept"
    /\ nconn < MaxConns
    /\ cmd = "put" => all_exist(files, dir)
    /\ nconn' = nconn + 1
    /\ openConns' = openConns \cup {nconn + 1}
    /\ cli' = [pc |-> "ver", need |-> 4, buf |-> <<>>, cmd |-> cmd,
               filenames |-> files, i |-> 0]
    /\ cliFiles' = dir
    /\ srv' = [SrvIdle EXCEPT !.pc = "dir", !.need = 1]
    /\ s2c' = pack_i(server_version)
    /\ c2s' = <<>>
    /\ cliClosed' = FALSE
    /\ srvClosed' = FALSE
    /\ cliRst' = FALSE
    /\ srvRst' = FALSE
    /\ log' = [LogNone EXCEPT !.connected = TRUE, !.files0 = srvFiles,
                              !.srvwrote = pack_i(server_version),
                              !.dir0 = dir]
    /\ UNCHANGED << server_version, srvFiles >>

MainGet == \E files \in GetLists : Connect("get", files, GetDir)

MainPut == \E files \in PutLists, dir \in ClientDirs : Connect("put", files, dir)

\* main, for `put` with a named file that is missing: prints and returns.
MainPutMissing ==
    \E files \in PutLists, dir \in ClientDirs :
        /\ SessionOver
        /\ ~all_exist(files, dir)
        /\ cli' = [CliNone EXCEPT !.pc = "notrying", !.cmd = "put",
                                  !.filenames = files]
        /\ cliFiles' = dir
        /\ log' = LogNone
        /\ UNCHANGED << server_version, srv, srvFiles, c2s, s2c, cliClosed,
                        srvClosed, cliRst, srvRst, nconn, openConns >>

\* A program that is not this repository's client connects to this
\* repository's server, reads the version, writes a malformed put request
\* and closes.
MainRaw ==
    \E request \in BadRequests :
        /\ SessionOver
        /\ srv.pc = "accept"
        /\ nconn < MaxConns
        /\ server_version = 1
        /\ nconn' = nconn + 1
        /\ openConns' = openConns \cup {nconn + 1}
        /\ cli' = [CliNone EXCEPT !.pc = "returned", !.cmd = "raw"]
        /\ srv' = [SrvIdle EXCEPT !.pc = "dir", !.need = 1]
        /\ s2c' = <<>>
        /\ c2s' = request
        /\ cliClosed' = TRUE
        /\ srvClosed' = FALSE
        /\ cliRst' = FALSE
        /\ srvRst' = FALSE
        /\ log' = [LogNone EXCEPT !.connected = TRUE, !.files0 = srvFiles,
                                  !.srvwrote = pack_i(server_version),
                                  !.dir0 = cliFiles,
                                  !.version = server_version,
                                  !.sent = Len(request)]
        /\ UNCHANGED << server_version, srvFiles, cliFiles >>

\* One sock.recv of the server's recv_all, and the handler up to its next
\* blocking call.
SrvRecv ==
    /\ srv.pc \in SrvReading
    /\ \E r \in recv(c2s, cliClosed, srvRst, srv.need) :
         LET data == srv.buf \o Take(c2s, r.n)
             rest == Drop(c2s, r.n)
             w    == SrvWorld IN
         IF r.kind = "reset" THEN SrvCommit([w EXCEPT !.end = "raised"], c2s, FALSE)
         ELSE IF recv_all_done(data, srv.need)
         THEN SrvCommit(server_handle_request(w, srv.pc, data), rest, FALSE)
         ELSE SrvCommit([w EXCEPT !.buf = data], rest, r.kind = "eof")

\* One iteration of the server's loop over the requested filenames, or the
\* end of that loop.
SrvSendFile ==
    /\ srv.pc = "serve"
    /\ \E sendfails \in {FALSE, cliClosed} :
         SrvCommit(server_send_file(SrvWorld, sendfails), c2s, FALSE)

\* One sock.recv of the client's recv_all, and the client up to its next
\* blocking call.
CliRecv ==
    /\ cli.pc \in CliReading
    /\ \E r \in recv(s2c, srvClosed, cliRst, cli.need), sendfails \in {FALSE, srvClosed} :
         LET data == cli.buf \o Take(s2c, r.n)
             rest == Drop(s2c, r.n)
             w    == CliWorld
             w2   == IF cli.pc = "ver" /\ cli.cmd = "put" THEN put_files(w, data)
                     ELSE get_files(w, cli.pc, data) IN
         IF r.kind = "reset" THEN CliCommit([w EXCEPT !.end = "raised"], s2c, FALSE)
         ELSE IF recv_all_done(data, cli.need)
         THEN IF sendfails /\ w2.out # <<>>
              THEN CliCommit([w EXCEPT !.end = "raised"], rest, FALSE)
              ELSE CliCommit(w2, rest, FALSE)
         ELSE CliCommit([w EXCEPT !.buf = data], rest, r.kind = "eof")

\* One iteration of put_files' loop over filenames, or the end of that loop.
CliPutFile ==
    /\ cli.pc = "put"
    /\ \E sendfails \in {FALSE, srvClosed} :
         IF sendfails /\ cli.i <= Len(cli.filenames) THEN CliCommit([CliWorld EXCEPT !.end = "raised"], s2c, FALSE)
         ELSE CliCommit(put_file(CliWorld), s2c, FALSE)

\* The client process is killed: its socket closes, and of the bytes it
\* wrote that the server has not received yet, only a prefix was sent.
ClientKill ==
    /\ cli.pc \in CliRunning
    /\ \E k \in 0..Len(c2s) :
         /\ c2s' = Take(c2s, k)
         /\ cli' = [cli EXCEPT !.pc = "killed"]
         /\ cliClosed' = TRUE
         /\ srvRst' = (srvRst \/ (s2c # <<>> /\ ~srvClosed))
         /\ log' = [log EXCEPT !.killed = TRUE]
         /\ UNCHANGED << server_version, srv, srvFiles, cliFiles, s2c, srvClosed,
                         cliRst, nconn, openConns >>

\* The server process is killed while it handles a connection.
ServerKill ==
    /\ srv.pc \in SrvReading \cup {"serve"}
    /\ \E k \in 0..Len(s2c) :
         /\ s2c' = Take(s2c, k)
         /\ srv' = [SrvIdle EXCEPT !.pc = "dead"]
         /\ srvClosed' = TRUE
         /\ openConns' = {}
         /\ cliRst' = (cliRst \/ (c2s # <<>> /\ ~cliClosed))
         /\ log' = [log EXCEPT !.killed = TRUE, !.srvend = "killed"]
         /\ UNCHANGED << server_version, srvFiles, cli, cliFiles, c2s, cliClosed,
                         srvRst, nconn >>

Next ==
    \/ MainGet
    \/ MainPut
    \/ MainPutMissing
    \/ MainRaw
    \/ SrvRecv
    \/ SrvSendFile
    \/ CliRecv
    \/ CliPutFile
    \/ ClientKill
    \/ ServerKill

Spec == Init /\ [][Next]_vars

\* The server and both clients keep running while they can take a step; the
\* kills and the start of a new command are the environment's and are not fair.
FairSpec ==
    /\ Spec
    /\ WF_vars(SrvRecv)
    /\ WF_vars(SrvSendFile)
    /\ WF_vars(CliRecv)
    /\ WF_vars(CliPutFile)

\* One iteration of the loop over the requested filenames of a server on the
\* port that sends the flag false for a file it does not hold.
PeerSendFile ==
    /\ srv.pc = "serve"
    /\ \E sendfails \in {FALSE, cliClosed} :
         SrvCommit(peer_send_file(SrvWorld, sendfails), c2s, FALSE)

\* The clients of this repository against such a server.
NextPeer ==
    \/ MainGet
    \/ MainPut
    \/ MainPutMissing
    \/ MainRaw
    \/ SrvRecv
    \/ PeerSendFile
    \/ CliRecv
    \/ CliPutFile
    \/ ClientKill
    \/ ServerKill

SpecPeer == Init /\ [][NextPeer]_vars

(***************************************************************************)
(* Properties.                                                             *)
(***************************************************************************)
\* The positions of its list the get client has finished with.
GetDone == IF cli.pc \in {"flag", "size", "data"} THEN cli.i - 1
           ELSE IF cli.pc = "returned" THEN Len(cli.filenames) ELSE 0

\* C1: in a get session, for a requested filename that the server does not
\* hold, the client saves no local file under that name and reports it
\* not found once it has dealt with that position of the list, and when
\* get_files returns every filename of the list has been either saved or
\* reported.
C1_MissingFileSkipped ==
    cli.cmd = "get" /\ log.connected =>
        /\ \A k \in 1..Len(log.saved) : log.saved[k].name \in DOMAIN srvFiles
        /\ \A k \in 1..GetDone :
              cli.filenames[k] \notin DOMAIN srvFiles =>
                  \E j \in 1..Len(log.notfound) : log.notfound[j] = cli.filenames[k]
        /\ cli.pc = "returned" =>
              Len(log.saved) + Len(log.notfound) = Len(cli.filenames)

\* C2: in a get session, every file the client saves holds the server's
\* content of the file of that very name, never the content of another of
\* the server's files, and when get_files returns, every requested filename
\* that the server holds is a local file with the server's content.
C2_GetSavesServerContent ==
    cli.cmd = "get" /\ log.connected =>
        /\ \A k \in 1..Len(log.saved) :
              LET e == log.saved[k] IN
              (\E g \in DOMAIN srvFiles : g # e.name /\ srvFiles[g] = e.data) =>
                  (e.name \in DOMAIN srvFiles /\ srvFiles[e.name] = e.data)
        /\ cli.pc = "returned" =>
              \A k \in 1..Len(cli.filenames) :
                  LET f == cli.filenames[k] IN
                  f \in DOMAIN srvFiles =>
                      (f \in DOMAIN cliFiles /\ cliFiles[f] = srvFiles[f])

\* C3: once the client of a connection has closed its socket, the server
\* eventually leaves the handling of that connection (its accepted socket is
\* closed and run_server is back at accept, unless the server was killed).
C3_ServerLeavesClosedConnection ==
    (log.connected /\ cliClosed /\ ~srvClosed) ~> srvClosed

\* C4: a recv_all that was handed b'' by recv before it held num_bytes bytes
\* has ended with an error: neither side is still inside recv_all after its
\* recv returned the empty byte string.
C4_RecvAllRaisesOnClose ==
    /\ log.srveof => srv.pc \notin SrvReading
    /\ log.clieof => cli.pc \notin CliReading

\* C5: when the version a client received is not 1, the client has sent no
\* byte on the connection, has read no local file, has saved no local file,
\* and its socket is closed.
C5_VersionGate ==
    log.version \notin {0, 1} =>
        /\ log.sent = 0
        /\ c2s = <<>>
        /\ log.read = {}
        /\ log.saved = <<>>
        /\ cliFiles \in ClientDirs \cup {GetDir}
        /\ cliClosed
        /\ cli.pc = "wrongver"

C5_Witness ==
    /\ log.version = 2
    /\ cli.cmd = "put"
    /\ cli.pc = "wrongver"
    /\ cliClosed

\* A put session ran to completion: put_files returned and the server's
\* handler returned.
PutCompleted ==
    cli.cmd = "put" /\ cli.pc = "returned" /\ log.srvend = "returned"

\* C6: when a put session has run to completion, the server persisted as
\* many files as the count the client sent, the k-th under the k-th uploaded
\* name with the client's content of that file, and the server's directory
\* holds, under every uploaded name, exactly the client's content, whatever
\* it held under that name before.
C6_PutStoresClientContent ==
    PutCompleted =>
        /\ Len(log.srvsaved) = Len(cli.filenames)
        /\ \A k \in 1..Len(cli.filenames) :
              LET f == cli.filenames[k] IN
              /\ log.srvsaved[k].name = f
              /\ log.srvsaved[k].data = cliFiles[f]
              /\ f \in DOMAIN srvFiles
              /\ srvFiles[f] = cliFiles[f]

C6_Witness ==
    /\ PutCompleted
    /\ cli.filenames = <<NameA, NameE>>
    /\ NameA \in DOMAIN log.files0
    /\ log.files0[NameA] # srvFiles[NameA]
    /\ NameE \notin DOMAIN log.files0

\* C7: every file saved by a receiver (the client in get, the server in put)
\* was saved with exactly as many bytes as the length prefix received for it
\* announced, also when the sender was killed in the middle of a payload.
C7_NoPartialFile ==
    /\ \A k \in 1..Len(log.saved) :
          Len(log.saved[k].data) = log.saved[k].announced
    /\ \A k \in 1..Len(log.srvsaved) :
          Len(log.srvsaved[k].data) = log.srvsaved[k].announced

\* The client was killed in the middle of the second payload of a put: the
\* server saved the first file, holds one of the two announced bytes of the
\* second and has been told the stream is closed.
C7_Witness ==
    /\ log.killed
    /\ cliClosed
    /\ cli.filenames = <<NameE, NameA>>
    /\ Len(log.srvsaved) = 1
    /\ srv.pc = "p_data"
    /\ srv.need = 2
    /\ Len(srv.buf) = 1
    /\ c2s = <<>>
    /\ log.srveof

\* The get client has written its filename list and nothing was lost or cut.
ListSent ==
    /\ cli.cmd = "get"
    /\ log.version = 1
    /\ log.sent > 0
    /\ ~log.killed

\* C8: the list the server's recv_str_list returns is the list the client's
\* send_str_list wrote, and once the server has taken every byte the client
\* wrote, recv_str_list has returned that list.
C8_StrListRoundTrip ==
    ListSent =>
        /\ log.gotlist => log.srvlist = cli.filenames
        /\ c2s = <<>> => log.gotlist

\* C9: at most one accepted connection is open at any time, and none is
\* open while run_server is at accept.
C9_OneConnectionOpen ==
    /\ Cardinality(openConns) <= 1
    /\ srv.pc = "accept" => openConns = {}

\* run_server is back at accept after the handler of the second connection
\* raised an exception.
C9_Witness ==
    /\ srv.pc = "accept"
    /\ nconn = 2
    /\ log.srvend = "raised"
    /\ openConns = {}

\* A file named on the put command line is missing.
PutFileMissing ==
    /\ cli.cmd = "put"
    /\ \E k \in 1..Len(cli.filenames) : cli.filenames[k] \notin DOMAIN cliFiles

\* C10: for a put command that names a missing local file, no connection
\* was opened and no byte was sent: put_files did not run.
C10_PutMissingNoConnect ==
    PutFileMissing =>
        /\ ~log.connected
        /\ log.sent = 0
        /\ cliClosed
        /\ cli.pc = "notrying"

C10_Witness ==
    /\ PutFileMissing
    /\ cli.filenames = <<NameA, NameE>>
    /\ cli.pc = "notrying"
    /\ nconn = 1
    /\ srv.pc = "accept"

\* What the claim has the server write for the filenames names, in order:
\* the flag true, the length and the bytes of a file it holds, the flag
\* false alone for a file it does not hold.
RECURSIVE FlagsFor(_, _)
FlagsFor(names, dir) ==
    IF names = <<>> THEN <<>>
    ELSE (IF Head(names) \in DOMAIN dir
          THEN <<1>> \o pack_i(Len(dir[Head(names)])) \o dir[Head(names)]
          ELSE <<0>>)
         \o FlagsFor(Tail(names), dir)

\* C11: in the get flow, after the version, the server has written for each
\* filename of the received list it has dealt with, in list order, one
\* existence flag: true with the file's length and bytes, or false alone;
\* when the handler returns it has written one flag for every filename.
C11_OneFlagPerFilename ==
    log.gotlist /\ (srv.pc = "serve" \/ log.srvend = "returned") =>
        LET n == IF srv.pc = "serve" THEN srv.i - 1 ELSE Len(log.srvlist) IN
        Drop(log.srvwrote, 4) = FlagsFor(Take(log.srvlist, n), srvFiles)

\* C12: a get session against a server of version 1 in which no process is
\* killed eventually has the client's socket closed: get_files returns (or
\* raises) and leaves its `with client` block.
C12_GetSessionCloses ==
    (cli.cmd = "get" /\ log.connected /\ server_version = 1 /\ ~log.killed)
        ~> (cliClosed \/ log.killed)

\* C13: a put session in which put_files has sent its whole flow and
\* returned eventually ends on the server: the accepted socket is closed and
\* run_server is back at accept (or the server process was killed).
C13_PutSessionEnds ==
    (cli.cmd = "put" /\ cli.pc = "returned" /\ ~srvClosed) ~> srvClosed

\* C14: in a session with this server (version 1) the first four bytes on
\* the connection are the server's, and are the version 1 in little-endian
\* order; a client that has not received a whole version has written
\* nothing, and while the client waits for the version no byte of its own is
\* in flight; a client that has written has read the version 1.
C14_VersionFirst ==
    log.connected /\ server_version = 1 =>
        /\ Len(log.srvwrote) >= 4
        /\ Take(log.srvwrote, 4) = <<1, 0, 0, 0>>
        /\ cli.pc = "ver" => log.sent = 0 /\ c2s = <<>> /\ Len(cli.buf) < 4
        /\ log.version = 0 => log.sent = 0
        /\ log.sent > 0 => log.version = 1
        /\ srv.pc \in SrvReading \ {"dir"} => log.sent > 0

\* The client has read the version in two pieces and has then written its
\* direction flag and its list.
C14_Witness ==
    /\ log.connected
    /\ server_version = 1
    /\ cli.cmd = "get"
    /\ log.version = 1
    /\ log.sent > 0
    /\ cli.pc = "flag"
    /\ srv.pc = "dir"
    /\ Take(log.srvwrote, 4) = <<1, 0, 0, 0>>

\* The step in which get_files receives the flag false for the filename at
\* position cli.i: the next byte of the stream is 0 and the client, neither
\* killed nor reset, takes a step.
FlagFalseRead ==
    /\ cli.cmd = "get"
    /\ cli.pc = "flag"
    /\ s2c # <<>>
    /\ Head(s2c) = 0
    /\ cli' # cli
    /\ cli'.pc \notin {"killed", "raised"}

\* C15: when get_files reads the flag false for the filename at position i,
\* that step takes the flag's byte alone from the stream (no length, no
\* payload), saves nothing and reports the filename missing; the client
\* then waits for one byte, the flag of position i+1, with the stream at the
\* byte that follows the flag it read, or has returned when i was the last.
C15_FalseFlagReadsNothingMore ==
    [][FlagFalseRead =>
          /\ s2c' = Tail(s2c)
          /\ cliFiles' = cliFiles
          /\ log'.saved = log.saved
          /\ log'.notfound = Append(log.notfound, cli.filenames[cli.i])
          /\ IF cli.i < Len(cli.filenames)
             THEN /\ cli'.pc = "flag"
                  /\ cli'.i = cli.i + 1
                  /\ cli'.need = 1
                  /\ cli'.buf = <<>>
             ELSE cli'.pc = "returned"]_vars

\* The client has read the flag false for the first of two filenames and
\* waits for the second's flag, whose bytes are already in the stream.
C15_Witness ==
    /\ cli.cmd = "get"
    /\ cli.filenames = <<NameEmpty, NameA>>
    /\ log.notfound = <<NameEmpty>>
    /\ log.saved = <<>>
    /\ cli.pc = "flag"
    /\ cli.i = 2
    /\ s2c = <<1, 2, 0, 0, 0, 5, 6>>
    /\ cliFiles = GetDir

\* C16: when the handler has raised while it handled a connection, that
\* connection's socket is closed, no accepted connection is open and
\* run_server is at accept for the next connection; the server process is
\* stopped only by a kill, never by a client's request.
C16_ServerSurvivesException ==
    /\ log.srvend = "raised" =>
          /\ srv.pc = "accept"
          /\ srvClosed
          /\ openConns = {}
    /\ srv.pc = "dead" /\ log.connected => log.srvend = "killed"
    /\ cli.cmd = "raw" /\ c2s = <<>> /\ srv.buf = <<>> /\ ~log.killed =>
          log.srvend = "raised"

\* The second connection was a malformed put request: the handler raised on
\* it and run_server is at accept, after a first connection was served.
C16_Witness ==
    /\ cli.cmd = "raw"
    /\ log.srvend = "raised"
    /\ ~log.killed
    /\ c2s = <<>>
    /\ srv.pc = "accept"
    /\ srvClosed
    /\ nconn = 2

\* C17: a recv_all(sock, n) in progress has taken at most n bytes from the
\* stream: the bytes it holds never number more than n, for every way the
\* transport delivers them, so no byte of the next framed value is taken.
C17_RecvAllTakesExactly ==
    /\ srv.pc \in SrvReading => Len(srv.buf) <= srv.need
    /\ cli.pc \in CliReading => Len(cli.buf) <= cli.need

\* C18: a session changes storage on one side only.  In a get session the
\* server's directory is what it was when the connection was accepted, the
\* server has saved nothing, and once it has received the filename list it
\* is never again in a recv.  In a put session the client's directory is
\* what it was when the command started, the client has saved nothing, and
\* what the server has written on the connection is the four bytes of the
\* version.
C18_OneSideChanges ==
    log.connected =>
        /\ cli.cmd = "get" =>
              /\ srvFiles = log.files0
              /\ log.srvsaved = <<>>
              /\ log.gotlist => srv.pc \notin SrvReading
        /\ cli.cmd = "put" =>
              /\ cliFiles = log.dir0
              /\ log.saved = <<>>
              /\ Len(log.srvwrote) = 4

\* A get session is over: the client saved a file over its own, and the
\* server, which received the list and returned, holds what it held.
C18_Witness ==
    /\ cli.cmd = "get"
    /\ cli.pc = "returned"
    /\ log.gotlist
    /\ log.srvend = "returned"
    /\ log.saved # <<>>
    /\ cliFiles # log.dir0
    /\ srvFiles = log.files0

====
